---- MODULE Spec2Model ----
(***************************************************************************)
(* Lebwohl-Lasher Monte Carlo kernel of cython_LebwohlLasher.pyx.          *)
(*                                                                         *)
(* Numbers.  Angles are integer multiples of pi/4, so every quantity the   *)
(* kernel computes from them is rational and is kept exactly:              *)
(*   - an energy is kept as 4 times its value (an integer);                *)
(*   - a ratio or a tensor entry is kept as a pair <<num, den>>;           *)
(*   - the largest eigenvalue is kept as (mid + sqrt(disc)) / den.         *)
(* Random draws (numpy.random) are nondeterministic choices.               *)
(* A Python exception raised anywhere below main propagates to main's      *)
(* caller: the run ends in pc = "error".                                   *)
(* MC_step is read as its indentation binds it: the "else:" of line 277    *)
(* belongs to "for j", and the "return" of line 286 ends the function      *)
(* after the outer loop.                                                   *)
(***************************************************************************)
EXTENDS Integers, Sequences, FiniteSets, TLC

\* ---- bounds of the model -------------------------------------------------
MaxN == 2          \* largest lattice side of a full run
MaxSteps == 3      \* largest nsteps of a full run
MaxAttempts == 4   \* a full run makes at most this many attempts in all
MaxGridN == 4      \* largest lattice side of the lattice-only specification
MaxPerturb == 2    \* perturbations applied in the lattice-only specification

\* The values the inputs and the random draws are taken from.  Angles are in
\* units of pi/4, temperatures in units of 1/20 (so -1, -0.05, 0 and 1).
Sizes == -1 .. MaxN
Temps == {-20, -1, 0, 20}
InitAngs == {0, 1}
Angs == {-1, 0, 1}

VARIABLES
    nsteps, nmax, temp,      \* main's arguments
    arr,                     \* lattice_np: [<<ix, iy>> -> angle]
    pc,                      \* position in main / MC_step
    it,                      \* main's loop variable
    i, j,                    \* MC_step's loop variables
    accept,                  \* MC_step's acceptance counter
    ix, iy, ang, en0, en1,   \* MC_step's locals of the latest attempt
    Qab,                     \* get_order's tensor, as its latest call built it
    ratio, energy, order,    \* the three series (1-based: index k is [k+1])
    saved,                   \* what main hands to savedat
    \* history variables (not read by the program)
    arr0,                    \* the lattice initdat returned
    pre,                     \* the lattice before the latest attempt
    counted,                 \* the latest attempt incremented accept
    attempts,                \* attempts made by the sweep in progress
    sweeps,                  \* sweeps returned so far
    retRatio, retArr,        \* per sweep: value returned, lattice at return
    measured,                \* energy and order of arr0 and of each retArr[k]
    wr                       \* per series and index: number of writes

vars == <<nsteps, nmax, temp, arr, pc, it, i, j, accept, ix, iy, ang, en0,
          en1, Qab, ratio, energy, order, saved, arr0, pre, counted, attempts,
          sweeps, retRatio, retArr, measured, wr>>

Cells(n) == (0 .. (n - 1)) \X (0 .. (n - 1))

\* The k-th cell (k = 0, 1, ...) visited by
\* "for i in range(n): for j in range(n)".
CellAt(k, n) == <<k \div n, k % n>>

\* ---- one_energy ----------------------------------------------------------
\* Cython's % on C ints follows Python (cdivision is off): the result has the
\* sign of the divisor.  TLC's % is the same for a positive divisor.
IxpOf(c, n) == (c + 1) % n

\* C remainder: the result has the sign of the dividend.
IxmOfMut(c, n) == IF c - 1 < 0 THEN 0 - ((1 - c) % n) ELSE (c - 1) % n

IxmOf(c, n) == (c - 1) % n

\* The four cells one_energy reads besides (x, y), in the order it reads them.
Neighbours(x, y, n) ==
    << <<IxpOf(x, n), y>>, <<IxmOf(x, n), y>>,
       <<x, IxpOf(y, n)>>, <<x, IxmOf(y, n)>> >>

\* 4 * 0.5 * (1 - 3 cos^2(d * pi/4)); cos^2 is 1, 1/2, 0, 1/2 for d mod 4.
Term(d) == CASE d % 4 = 0 -> -4
             [] d % 4 = 1 -> -1
             [] d % 4 = 2 -> 2
             [] d % 4 = 3 -> -1

one_energy(a, x, y, n) ==
    LET nb == Neighbours(x, y, n)
    IN  Term(a[<<x, y>>] - a[nb[1]]) + Term(a[<<x, y>>] - a[nb[2]])
        + Term(a[<<x, y>>] - a[nb[3]]) + Term(a[<<x, y>>] - a[nb[4]])

\* ---- all_energy ----------------------------------------------------------
\* enall after the first k cells of the double loop.
RECURSIVE EnergyFirst(_, _, _)
EnergyFirst(a, n, k) ==
    IF k <= 0 THEN 0
    ELSE EnergyFirst(a, n, k - 1)
         + one_energy(a, CellAt(k - 1, n)[1], CellAt(k - 1, n)[2], n)

\* the double loop stops one cell short
all_energyMut(a, n) == EnergyFirst(a, n, n * n - 1)

all_energy(a, n) == EnergyFirst(a, n, n * n)

\* ---- get_order -----------------------------------------------------------
\* delta = np.eye(3)
deltaMut(a, b) == IF a = b /\ a < 2 THEN 1 ELSE 0

delta(a, b) == IF a = b THEN 1 ELSE 0

\* 2 * lab[a] * lab[b] for one cell of angle th, where lab[0] = cos, lab[1] =
\* sin and lab[2] stays 0 (np.zeros): 2cos^2 is 2, 1, 0, 1 and 2cos*sin =
\* sin(2 th) is 0, 1, 0, -1 for th mod 4 = 0, 1, 2, 3.
TwoCosCos(th) == CASE th % 4 = 0 -> 2 [] th % 4 = 2 -> 0 [] OTHER -> 1

TwoCosSin(th) == CASE th % 4 = 1 -> 1 [] th % 4 = 3 -> -1 [] OTHER -> 0

\* lab[2] filled like lab[0].
TwoLabLabMut(a, b, th) ==
    LET aa == IF a = 2 THEN 0 ELSE a
        bb == IF b = 2 THEN 0 ELSE b
    IN  CASE aa = 0 /\ bb = 0 -> TwoCosCos(th)
          [] aa = 1 /\ bb = 1 -> 2 - TwoCosCos(th)
          [] OTHER -> TwoCosSin(th)

TwoLabLab(a, b, th) ==
    CASE a = 2 \/ b = 2 -> 0
      [] a = 0 /\ b = 0 -> TwoCosCos(th)
      [] a = 1 /\ b = 1 -> 2 - TwoCosCos(th)
      [] OTHER -> TwoCosSin(th)

\* Twice the sum accumulated into Qab[a, b] over the first k cells.
RECURSIVE QabFirst(_, _, _, _, _)
QabFirst(a, b, lat, n, k) ==
    IF k <= 0 THEN 0
    ELSE QabFirst(a, b, lat, n, k - 1)
         + 3 * TwoLabLab(a, b, lat[CellAt(k - 1, n)]) - 2 * delta(a, b)

\* Twice the sum accumulated into Qab[a, b] by the four nested loops.
QabSum2(a, b, lat, n) == QabFirst(a, b, lat, n, n * n)

\* tmp = 2 * nmax * nmax
OrderNorm(n) == 2 * n * n

\* Qab[a, b] after normalisation, as the fraction <<num, den>>.
\* Defined when tmp # 0 (the division raises ZeroDivisionError otherwise).
QabEntry(a, b, lat, n) == <<QabSum2(a, b, lat, n), 2 * OrderNorm(n)>>

\* Qab after normalisation: row a + 1, column b + 1 holds Qab[a, b].
BuildQab(lat, n) ==
    << <<QabEntry(0, 0, lat, n), QabEntry(0, 1, lat, n),
         QabEntry(0, 2, lat, n)>>,
       <<QabEntry(1, 0, lat, n), QabEntry(1, 1, lat, n),
         QabEntry(1, 2, lat, n)>>,
       <<QabEntry(2, 0, lat, n), QabEntry(2, 1, lat, n),
         QabEntry(2, 2, lat, n)>> >>

\* Qab[a, b] of a tensor Q
At(Q, a, b) == Q[a + 1][b + 1]

\* np.linalg.eigvalsh(Qab)[2]: the largest eigenvalue.  With
\* Qab[0,2] = Qab[1,2] = 0 the eigenvalues are Qab[2,2] and the two roots
\* (tr +- sqrt(disc)) / 2 of the upper-left block.
MaxEigenvalue(Q) ==
    LET den  == At(Q, 0, 0)[2]
        tr   == At(Q, 0, 0)[1] + At(Q, 1, 1)[1]
        df   == At(Q, 0, 0)[1] - At(Q, 1, 1)[1]
        disc == df * df + 4 * At(Q, 0, 1)[1] * At(Q, 0, 1)[1]
        q22  == At(Q, 2, 2)[1]
        blockLargest == \/ 2 * q22 - tr <= 0
                        \/ disc >= (2 * q22 - tr) * (2 * q22 - tr)
    IN  IF blockLargest
        THEN [mid |-> tr, disc |-> disc, den |-> 2 * den]
        ELSE [mid |-> 2 * q22, disc |-> 0, den |-> 2 * den]

get_order(lat, n) == MaxEigenvalue(BuildQab(lat, n))

\* ---- main and MC_step ----------------------------------------------------
\* Series index k of the program is position k + 1 of the sequence.
Idx(k) == k + 1

SeriesLenMut(n) == n

\* np.zeros(nsteps+1)
SeriesLen(n) == n + 1

\* range(1, nsteps+1) starts at 1
FirstStep == 1

\* range(1, nsteps+2)
InRangeMut(k, n) == k <= n + 1

\* it is still in range(1, nsteps+1)
InRange(k, n) == k <= n

ZeroOrder == [mid |-> 0, disc |-> 0, den |-> 1]

\* scale = 0.1 + Ts, in units of 1/20
Scale(Ts) == 2 + Ts

\* arr[ix,iy] += ang, on the whole row ix
PerturbMut(lat, x, y, a) ==
    [c \in DOMAIN lat |-> IF c[1] = x THEN lat[c] + a ELSE lat[c]]

\* arr[ix,iy] += ang
Perturb(lat, x, y, a) == [lat EXCEPT ![<<x, y>>] = @ + a]

\* boltz = exp(-(en1 - en0) / Ts) is at least 1, hence at least any uniform
\* draw of [0, 1), exactly when its exponent is >= 0.
BoltzAtLeastOne(e0, e1, Ts) == (e1 - e0) * Ts <= 0

\* History: the energy and the order of a lattice, as all_energy and
\* get_order compute them (no order when get_order would divide by zero).
Measure(lat, n) ==
    [energy |-> all_energy(lat, n),
     order |-> IF OrderNorm(n) = 0 THEN ZeroOrder ELSE get_order(lat, n)]

NoWrites(n) == [s \in {"ratio", "energy", "order"} |->
                   [k \in 1 .. SeriesLen(n) |-> 0]]

Wrote(s, k) == [wr EXCEPT ![s][Idx(k)] = @ + 1]

Init ==
    /\ nsteps \in 0 .. MaxSteps
    /\ nmax \in Sizes
    /\ temp \in Temps
    /\ nmax > 0 => nsteps * nmax * nmax <= MaxAttempts
    /\ pc = "initdat"
    /\ arr = << >> /\ arr0 = << >> /\ pre = << >>
    /\ it = 0 /\ i = 0 /\ j = 0 /\ accept = 0
    /\ ix = 0 /\ iy = 0 /\ ang = 0 /\ en0 = 0 /\ en1 = 0
    /\ Qab = << >>
    /\ ratio = << >> /\ energy = << >> /\ order = << >>
    /\ saved = << >>
    /\ counted = FALSE /\ attempts = 0 /\ sweeps = 0
    /\ retRatio = << >> /\ retArr = << >> /\ measured = << >>
    /\ wr = << >>

\* lattice_np = initdat(nmax, temp)
InitDat ==
    /\ pc = "initdat"
    /\ IF nmax < 0
       THEN /\ pc' = "error"       \* ValueError: negative dimensions
            /\ UNCHANGED <<arr, arr0, pre, measured>>
       ELSE /\ \E lat \in [Cells(nmax) -> InitAngs] :
                  /\ arr' = lat /\ arr0' = lat /\ pre' = lat
                  /\ measured' = <<Measure(lat, nmax)>>
            /\ pc' = "alloc"
    /\ UNCHANGED <<Qab, nsteps, nmax, temp, it, i, j, accept, ix, iy, ang,
                   en0, en1, ratio, energy, order, saved, counted, attempts,
                   sweeps, retRatio, retArr, wr>>

\* energy, ratio, order = np.zeros(nsteps+1)
Alloc ==
    /\ pc = "alloc"
    /\ energy' = [k \in 1 .. SeriesLen(nsteps) |-> 0]
    /\ ratio' = [k \in 1 .. SeriesLen(nsteps) |-> <<0, 1>>]
    /\ order' = [k \in 1 .. SeriesLen(nsteps) |-> ZeroOrder]
    /\ wr' = NoWrites(nsteps)
    /\ pc' = "energy0"
    /\ UNCHANGED <<Qab, nsteps, nmax, temp, arr, it, i, j, accept, ix, iy,
                   ang, en0, en1, saved, arr0, pre, counted, attempts, sweeps,
                   retRatio, retArr, measured>>

\* energy[0] = all_energy(lattice_np, nmax)
SetEnergy0 ==
    /\ pc = "energy0"
    /\ energy' = [energy EXCEPT ![Idx(0)] = all_energy(arr, nmax)]
    /\ wr' = Wrote("energy", 0)
    /\ pc' = "ratio0"
    /\ UNCHANGED <<Qab, nsteps, nmax, temp, arr, it, i, j, accept, ix, iy,
                   ang, en0, en1, ratio, order, saved, arr0, pre, counted,
                   attempts, sweeps, retRatio, retArr, measured>>

\* ratio[0] = 0.5
SetRatio0 ==
    /\ pc = "ratio0"
    /\ ratio' = [ratio EXCEPT ![Idx(0)] = <<1, 2>>]
    /\ wr' = Wrote("ratio", 0)
    /\ pc' = "order0"
    /\ UNCHANGED <<Qab, nsteps, nmax, temp, arr, it, i, j, accept, ix, iy,
                   ang, en0, en1, energy, order, saved, arr0, pre, counted,
                   attempts, sweeps, retRatio, retArr, measured>>

\* order[0] = get_order(lattice_np, nmax); then the loop variable is set
SetOrder0 ==
    /\ pc = "order0"
    /\ IF OrderNorm(nmax) = 0
       THEN /\ pc' = "error"       \* ZeroDivisionError in Qab[a, b] /= tmp
            /\ UNCHANGED <<Qab, order, wr, it>>
       ELSE /\ Qab' = BuildQab(arr, nmax)
            /\ order' = [order EXCEPT ![Idx(0)] = MaxEigenvalue(Qab')]
            /\ wr' = Wrote("order", 0)
            /\ it' = FirstStep
            /\ pc' = "loop"
    /\ UNCHANGED <<nsteps, nmax, temp, arr, i, j, accept, ix, iy, ang, en0,
                   en1, ratio, energy, saved, arr0, pre, counted, attempts,
                   sweeps, retRatio, retArr, measured>>

\* for it in range(1, nsteps+1): MC_step is entered (scale, accept = 0)
StartSweep ==
    /\ pc = "loop"
    /\ InRange(it, nsteps)
    /\ accept' = 0 /\ i' = 0 /\ j' = 0
    /\ attempts' = 0 /\ counted' = FALSE /\ pre' = arr
    /\ pc' = IF nmax > 0 THEN "attempt" ELSE "sweepret"
    /\ UNCHANGED <<Qab, nsteps, nmax, temp, arr, it, ix, iy, ang, en0, en1,
                   ratio, energy, order, saved, arr0, sweeps, retRatio,
                   retArr, wr, measured>>

\* body of "for j in range(nmax)": one attempt at the random cell (cx, cy)
Attempt(cx, cy, a) ==
    /\ pc = "attempt"
    /\ i < nmax /\ j < nmax
    /\ IF Scale(temp) < 0
       THEN /\ pc' = "error"       \* ValueError: scale < 0 in np.random.normal
            /\ UNCHANGED <<arr, j, accept, ix, iy, ang, en0, en1, pre,
                           counted, attempts>>
       ELSE /\ ix' = cx /\ iy' = cy /\ ang' = a
            /\ en0' = one_energy(arr, cx, cy, nmax)
            /\ pre' = arr
            /\ arr' = Perturb(arr, cx, cy, a)
            /\ en1' = one_energy(arr', cx, cy, nmax)
            /\ counted' = (en1' <= en0')
            /\ accept' = IF en1' <= en0' THEN accept + 1 ELSE accept
            /\ attempts' = attempts + 1
            /\ j' = j + 1
            /\ pc' = IF j + 1 < nmax THEN "attempt" ELSE "rowelse"
    /\ UNCHANGED <<Qab, nsteps, nmax, temp, it, i, ratio, energy, order,
                   saved, arr0, sweeps, retRatio, retArr, wr, measured>>

\* the "else:" of "for j": runs once when the inner loop is exhausted, on the
\* locals the row's last attempt left.  below: the uniform draw is <= boltz.
RowElse(below) ==
    /\ pc = "rowelse"
    /\ IF temp = 0
       THEN /\ pc' = "error"       \* ZeroDivisionError in (en1 - en0) / Ts
            /\ UNCHANGED <<arr, i, j, accept, counted>>
       ELSE /\ IF BoltzAtLeastOne(en0, en1, temp) \/ below
               THEN /\ accept' = accept + 1
                    /\ counted' = TRUE
                    /\ arr' = arr
               ELSE /\ arr' = Perturb(arr, ix, iy, 0 - ang)
                    /\ UNCHANGED <<accept, counted>>
            /\ i' = i + 1 /\ j' = 0
            /\ pc' = IF i + 1 < nmax THEN "attempt" ELSE "sweepret"
    /\ UNCHANGED <<Qab, nsteps, nmax, temp, it, ix, iy, ang, en0, en1, ratio,
                   energy, order, saved, arr0, pre, attempts, sweeps,
                   retRatio, retArr, wr, measured>>

\* return accept/(nmax*nmax); ratio[it] = that value
ReturnSweep ==
    /\ pc = "sweepret"
    /\ IF nmax * nmax = 0
       THEN /\ pc' = "error"       \* ZeroDivisionError
            /\ UNCHANGED <<ratio, wr, sweeps, retRatio, retArr, measured>>
       ELSE /\ ratio' = [ratio EXCEPT ![Idx(it)] = <<accept, nmax * nmax>>]
            /\ wr' = Wrote("ratio", it)
            /\ sweeps' = sweeps + 1
            /\ retRatio' = Append(retRatio, <<accept, nmax * nmax>>)
            /\ retArr' = Append(retArr, arr)
            /\ measured' = Append(measured, Measure(arr, nmax))
            /\ pc' = "energy"
    /\ ix' = 0 /\ iy' = 0 /\ ang' = 0 /\ en0' = 0 /\ en1' = 0
    /\ i' = 0 /\ j' = 0
    /\ UNCHANGED <<Qab, nsteps, nmax, temp, arr, it, accept, energy, order,
                   saved, arr0, pre, counted, attempts>>

\* energy[it] = all_energy(lattice_np, nmax)
SetEnergy ==
    /\ pc = "energy"
    /\ energy' = [energy EXCEPT ![Idx(it)] = all_energy(arr, nmax)]
    /\ wr' = Wrote("energy", it)
    /\ pc' = "order"
    /\ UNCHANGED <<Qab, nsteps, nmax, temp, arr, it, i, j, accept, ix, iy,
                   ang, en0, en1, ratio, order, saved, arr0, pre, counted,
                   attempts, sweeps, retRatio, retArr, measured>>

\* order[it] = get_order(lattice_np, nmax); next it
SetOrder ==
    /\ pc = "order"
    /\ Qab' = BuildQab(arr, nmax)
    /\ order' = [order EXCEPT ![Idx(it)] = MaxEigenvalue(Qab')]
    /\ wr' = Wrote("order", it)
    /\ it' = it + 1
    /\ pc' = "loop"
    /\ UNCHANGED <<nsteps, nmax, temp, arr, i, j, accept, ix, iy, ang, en0,
                   en1, ratio, energy, saved, arr0, pre, counted, attempts,
                   sweeps, retRatio, retArr, measured>>

\* the loop is exhausted: savedat(lattice_np, ..., ratio, energy, order, nmax)
Finish ==
    /\ pc = "loop"
    /\ ~InRange(it, nsteps)
    /\ saved' = [lattice |-> arr, ratio |-> ratio, energy |-> energy,
                 order |-> order]
    /\ pc' = "done"
    /\ UNCHANGED <<Qab, nsteps, nmax, temp, arr, it, i, j, accept, ix, iy,
                   ang, en0, en1, ratio, energy, order, arr0, pre, counted,
                   attempts, sweeps, retRatio, retArr, wr, measured>>

Next ==
    \/ InitDat
    \/ Alloc
    \/ SetEnergy0
    \/ SetRatio0
    \/ SetOrder0
    \/ StartSweep
    \/ \E cx \in 0 .. (nmax - 1), cy \in 0 .. (nmax - 1), a \in Angs :
           Attempt(cx, cy, a)
    \/ \E below \in BOOLEAN : RowElse(below)
    \/ ReturnSweep
    \/ SetEnergy
    \/ SetOrder
    \/ Finish

Spec == Init /\ [][Next]_vars

\* ---- the lattice alone ---------------------------------------------------
\* The lattice functions on larger lattices: an aligned lattice of side
\* 1..MaxGridN, then single cells perturbed as MC_step perturbs them.
InitGrid ==
    /\ nsteps = 0
    /\ nmax \in 1 .. MaxGridN
    /\ temp = 20
    /\ pc = "grid"
    /\ \E a0 \in InitAngs : arr = [c \in Cells(nmax) |-> a0]
    /\ arr0 = arr /\ pre = arr
    /\ it = 0 /\ i = 0 /\ j = 0 /\ accept = 0
    /\ ix = 0 /\ iy = 0 /\ ang = 0 /\ en0 = 0 /\ en1 = 0
    /\ Qab = << >>
    /\ ratio = << >> /\ energy = << >> /\ order = << >>
    /\ saved = << >>
    /\ counted = FALSE /\ attempts = 0 /\ sweeps = 0
    /\ retRatio = << >> /\ retArr = << >> /\ measured = << >>
    /\ wr = << >>

\* arr[ix,iy] += ang
GridPerturb(cx, cy, a) ==
    /\ pc = "grid"
    /\ attempts < MaxPerturb
    /\ arr' = Perturb(arr, cx, cy, a)
    /\ attempts' = attempts + 1
    /\ UNCHANGED <<Qab, nsteps, nmax, temp, pc, it, i, j, accept, ix, iy, ang,
                   en0, en1, ratio, energy, order, saved, arr0, pre, counted,
                   sweeps, retRatio, retArr, wr, measured>>

\* all_energy(arr, nmax) and get_order(arr, nmax) applied to the lattice
GridMeasure ==
    /\ pc = "grid"
    /\ energy' = <<all_energy(arr, nmax)>>
    /\ Qab' = BuildQab(arr, nmax)
    /\ order' = <<MaxEigenvalue(Qab')>>
    /\ pc' = "measured"
    /\ UNCHANGED <<nsteps, nmax, temp, arr, it, i, j, accept, ix, iy, ang,
                   en0, en1, ratio, saved, arr0, pre, counted, attempts,
                   sweeps, retRatio, retArr, wr, measured>>

NextGrid ==
    \/ \E cx \in 0 .. (nmax - 1), cy \in 0 .. (nmax - 1), a \in Angs :
           GridPerturb(cx, cy, a)
    \/ GridMeasure

SpecGrid == InitGrid /\ [][NextGrid]_vars

\* ---- properties ----------------------------------------------------------
Series == {"ratio", "energy", "order"}

Aligned(lat) == \A c, d \in DOMAIN lat : lat[c] = lat[d]

\* Periodic successor and predecessor of a coordinate, written without %.
Up(c, n) == IF c = n - 1 THEN 0 ELSE c + 1

Down(c, n) == IF c = 0 THEN n - 1 ELSE c - 1

\* C1 (as claimed): for N > 0 and T > 0 the acceptance counter never exceeds
\* the N*N attempts of the sweep, so every ratio a sweep returns is in [0,1].
C1_RatioInUnitInterval ==
    (nmax > 0 /\ temp > 0) =>
        /\ accept <= nmax * nmax
        /\ \A k \in DOMAIN retRatio :
               0 <= retRatio[k][1] /\ retRatio[k][1] <= retRatio[k][2]

\* C2 (as claimed): once an attempt is complete, either it was accepted and
\* counted or the lattice equals the lattice before that attempt.
C2_AcceptedOrReverted ==
    (nmax > 0 /\ temp > 0 /\ pc \in {"attempt", "sweepret"} /\ attempts > 0) =>
        (counted \/ arr = pre)

\* C3: the three series have length nsteps+1; index 0 holds ratio 0.5 and the
\* energy and order of the initial lattice; index k holds the ratio the k-th
\* sweep returned and the energy and order of the lattice that sweep left,
\* which is still the lattice when the next sweep starts; every index is
\* written at most once, in increasing order, and exactly once when main ends.
\* (measured[1] is the energy and order of the lattice initdat returned,
\* measured[k + 1] those of the lattice the k-th sweep left.)
C3_SeriesWrittenOnce ==
    (wr # << >>) =>
        /\ Len(ratio) = nsteps + 1
        /\ Len(energy) = nsteps + 1
        /\ Len(order) = nsteps + 1
        /\ \A s \in Series : \A k \in 1 .. (nsteps + 1) : wr[s][k] <= 1
        /\ \A s \in Series : \A k \in 2 .. (nsteps + 1) :
               wr[s][k] = 1 => wr[s][k - 1] = 1
        /\ wr["ratio"][1] = 1 => ratio[1] = <<1, 2>>
        /\ wr["energy"][1] = 1 => energy[1] = measured[1].energy
        /\ wr["order"][1] = 1 => order[1] = measured[1].order
        /\ \A k \in 1 .. nsteps :
               /\ wr["ratio"][k + 1] = 1 =>
                      k <= sweeps /\ ratio[k + 1] = retRatio[k]
               /\ wr["energy"][k + 1] = 1 =>
                      k <= sweeps /\ energy[k + 1] = measured[k + 1].energy
               /\ wr["order"][k + 1] = 1 =>
                      k <= sweeps /\ order[k + 1] = measured[k + 1].order
        /\ (pc = "loop" /\ sweeps > 0) => arr = retArr[sweeps]
        /\ pc = "done" =>
               /\ sweeps = nsteps
               /\ \A s \in Series : \A k \in 1 .. (nsteps + 1) : wr[s][k] = 1
               /\ saved.ratio = ratio /\ saved.energy = energy
               /\ saved.order = order

C3_Witness ==
    /\ pc = "done" /\ nsteps = 2 /\ sweeps = 2
    /\ retArr[1] # retArr[2] /\ retArr[1] # arr0
    /\ wr["order"][3] = 1

\* C4 (as claimed): with N <= 0 or T <= 0 no attempt is made, no series
\* value is recorded and main does not complete.
C4_BadConfigurationIsFatal ==
    (nmax <= 0 \/ temp <= 0) =>
        /\ attempts = 0 /\ sweeps = 0
        /\ pc # "done"
        /\ wr # << >> => \A s \in Series : \A k \in DOMAIN wr[s] : wr[s][k] = 0

\* C5: for N > 0 and every cell (x, y) of the lattice, the cells one_energy
\* reads are (x+1, y), (x-1, y), (x, y+1), (x, y-1) wrapped periodically,
\* and each of them is a cell of the lattice (every index in 0..N-1).
C5_NeighboursInRange ==
    (pc = "grid" /\ nmax > 0) =>
        \A x, y \in 0 .. (nmax - 1) :
            LET nb == Neighbours(x, y, nmax)
            IN  /\ nb[1] = <<Up(x, nmax), y>>
                /\ nb[2] = <<Down(x, nmax), y>>
                /\ nb[3] = <<x, Up(y, nmax)>>
                /\ nb[4] = <<x, Down(y, nmax)>>
                /\ \A k \in 1 .. 4 :
                       /\ nb[k] \in DOMAIN arr
                       /\ nb[k][1] \in 0 .. (nmax - 1)
                       /\ nb[k][2] \in 0 .. (nmax - 1)

C5_Witness ==
    /\ pc = "grid" /\ attempts > 0 /\ nmax >= 3
    /\ arr[<<0, 0>>] # arr0[<<0, 0>>]
    /\ one_energy(arr, 0, 0, nmax) # one_energy(arr0, 0, 0, nmax)
    /\ Neighbours(0, 0, nmax)[2] = <<nmax - 1, 0>>
    /\ Neighbours(0, 0, nmax)[4] = <<0, nmax - 1>>

\* Sum of the pair term over the bonds of the first k cells: each cell owns
\* the bond to the next cell of its row and the bond to the next of its column.
RECURSIVE BondFirst(_, _, _)
BondFirst(lat, n, k) ==
    IF k <= 0 THEN 0
    ELSE LET c == CellAt(k - 1, n)
         IN  BondFirst(lat, n, k - 1)
             + Term(lat[c] - lat[<<Up(c[1], n), c[2]>>])
             + Term(lat[c] - lat[<<c[1], Up(c[2], n)>>])

\* Sum of the pair term over the 2*N*N bonds, each taken once.
BondSum(lat, n) == BondFirst(lat, n, n * n)

\* C6: the lattice energy all_energy returns counts every bond from both
\* endpoints (it is twice the sum over bonds, not halved), and is -4*N*N for
\* an aligned lattice (energies are kept times 4: -16*N*N, -256 for N = 4).
C6_LatticeEnergy ==
    (pc = "measured") =>
        /\ energy[1] = 2 * BondSum(arr, nmax)
        /\ Aligned(arr) => energy[1] = 0 - 16 * nmax * nmax
        /\ (Aligned(arr) /\ nmax = 4) => energy[1] = 0 - 4 * 64

C6_Witness ==
    /\ pc = "measured" /\ nmax = 4 /\ Aligned(arr)
    /\ attempts = 2
    /\ energy[1] = -256

\* C7: a run with nsteps = 0 makes no sweep; the series handed over have
\* length 1 and hold 0.5 and the initial lattice's energy and order; the
\* lattice handed over is the lattice initdat returned.
C7_ZeroSteps ==
    (pc = "done" /\ nsteps = 0) =>
        /\ sweeps = 0 /\ attempts = 0
        /\ Len(saved.ratio) = 1 /\ Len(saved.energy) = 1
        /\ Len(saved.order) = 1
        /\ saved.ratio[1] = <<1, 2>>
        /\ saved.energy[1] = measured[1].energy
        /\ saved.order[1] = measured[1].order
        /\ saved.lattice = arr0

C7_Witness ==
    /\ pc = "done" /\ nsteps = 0 /\ nmax = 2
    /\ ~Aligned(arr0)
    /\ saved.lattice = arr0

\* C8: the order tensor get_order builds is symmetric and traceless.
C8_SymmetricTraceless ==
    (Qab # << >>) =>
        /\ \A a, b \in 0 .. 2 : At(Qab, a, b) = At(Qab, b, a)
        /\ At(Qab, 0, 0)[1] + At(Qab, 1, 1)[1] + At(Qab, 2, 2)[1] = 0
        /\ At(Qab, 0, 0)[2] = At(Qab, 1, 1)[2]
        /\ At(Qab, 1, 1)[2] = At(Qab, 2, 2)[2]
        /\ At(Qab, 0, 0)[2] > 0

C8_Witness ==
    /\ pc = "measured" /\ attempts > 0 /\ nmax = 3
    /\ ~Aligned(arr)
    /\ At(Qab, 0, 1)[1] # 0
    /\ At(Qab, 0, 0)[1] # At(Qab, 1, 1)[1]

\* C9 (as claimed): the third row and the third column of the order tensor
\* get_order builds are zero, the diagonal entry Qab[2,2] included.
C9_ThirdRowColumnZero ==
    (Qab # << >>) =>
        \A a, b \in 0 .. 2 : (a = 2 \/ b = 2) => At(Qab, a, b)[1] = 0

\* C9 (amended): the off-diagonal entries of the third row and the third
\* column are zero and Qab[2,2] = -1/2.
C9_ThirdRowColumnOffDiagonalZero ==
    (Qab # << >>) =>
        /\ \A a \in 0 .. 1 : At(Qab, a, 2)[1] = 0 /\ At(Qab, 2, a)[1] = 0
        /\ 2 * At(Qab, 2, 2)[1] = 0 - At(Qab, 2, 2)[2]
        /\ At(Qab, 2, 2)[2] > 0

C9_Witness ==
    /\ pc = "loop" /\ sweeps = 1 /\ nmax = 2
    /\ ~Aligned(arr)
    /\ wr["order"][2] = 1
    /\ At(Qab, 0, 1)[1] # 0
    /\ At(Qab, 2, 2) = <<-8, 16>>

\* C10: a sweep that returns has made exactly N*N attempts; the lattice,
\* once created, changes only inside a sweep, and a step that changes it
\* changes the one target cell (ix, iy) and no other.
C10_SingleSiteUpdates ==
    /\ [](pc = "sweepret" => attempts = nmax * nmax)
    /\ [][(arr' # arr /\ pc # "initdat") =>
            /\ pc \in {"attempt", "rowelse"}
            /\ DOMAIN arr' = DOMAIN arr
            /\ \A c \in DOMAIN arr : c # <<ix', iy'>> => arr'[c] = arr[c]
            /\ arr'[<<ix', iy'>>] # arr[<<ix', iy'>>]]_vars

C10_Witness ==
    /\ pc = "sweepret" /\ nmax = 2 /\ attempts = 4
    /\ Cardinality({c \in DOMAIN arr : arr[c] # arr0[c]}) >= 3

====
